---- MODULE Spec2Model ----
(***************************************************************************)
(* par_crud: a concurrent registry of named nodes (sync.Map) whose nodes   *)
(* keep a child map of atomic reference cells guarded by a sync.RWMutex.   *)
(* Removed nodes are tombstoned (dead flag); stale cells are cleared       *)
(* lazily by whoever traverses them and compacted now and then.            *)
(*                                                                         *)
(* Two variants of the traversal exist in the repository:                  *)
(*   src/state.go          traversal under RLock, cleanup deferred         *)
(*   src/unnamed/part_000  traversal under Lock, inline delete, and        *)
(*                         maybeCleanup called from getAndResetDead        *)
(* Spec / SpecMain model src/state.go, SpecInline models part_000.         *)
(***************************************************************************)
EXTENDS Integers, Sequences, FiniteSets, TLC

\* cleanupFreq is 100 in the source (src/state.go:11); the model scales it
\* down so that the compaction trigger is reachable within the bounds.
cleanupFreq == 3

NumThreads == 2
NumNames == 2
NumTexts == 1
\* how many create and connect calls the callers of Spec issue
MaxCreates == 2
MaxConnects == 2
\* ... and from the aged state
AgedCreates == 1
AgedConnects == 1
RacingConnects == 2
\* how often the caller of SpecMain runs main()'s scenario on one State
MaxRounds == 3

Nil == 0
Threads == 1..NumThreads
\* Names are numbered: 0 stands for "A", i > 0 for "B<i>".
Names == 0..(NumNames - 1)
Texts == 1..NumTexts
\* main() of src/state.go creates 200 = 2 * cleanupFreq children of "A".
MainChildren == 1..(2 * cleanupFreq)
AllNames == Names \cup {0} \cup MainChildren

VARIABLES
  registry,        \* State.nodes: name -> node id, Nil when absent
  name,            \* Node.name, per node id
  text,            \* Node.text
  dead,            \* Node.dead
  children,        \* Node.children: name -> cell id
  cleanupCounter,  \* Node.cleanupCounter
  lockW,           \* Node.lock: the thread holding it exclusively, or Nil
  lockR,           \* Node.lock: the threads holding it shared
  cells,           \* the atomic.Pointer[Node] objects: cell id -> node id or Nil
  th,              \* per thread: the running operation, its position and locals
  caller           \* the callers: calls left to issue (Spec), main()'s position (SpecMain)

shared == <<registry, name, text, dead, children, cleanupCounter, lockW, lockR, cells>>
vars == <<registry, name, text, dead, children, cleanupCounter, lockW, lockR, cells, th, caller>>

NodeIds == 1..Len(dead)
CellIds == 1..Len(cells)

NoResult == [err |-> "none", node |-> Nil, list |-> <<>>]

Idle ==
  [pc |-> "idle", op |-> "none", a1 |-> 0, a2 |-> 0, node |-> Nil, cnode |-> Nil,
   ptr |-> Nil, child |-> Nil, todo |-> {}, key |-> 0, valid |-> <<>>,
   cleanupNeeded |-> FALSE, currentCount |-> 0, ctodo |-> {}, startDead |-> {},
   atLock |-> <<>>, res |-> NoResult]

\* The operation of thread record r has returned with result res.
Done(r, res) ==
  [Idle EXCEPT !.pc = "done", !.op = r.op, !.a1 = r.a1, !.a2 = r.a2, !.res = res]

Ok(n, l) == [err |-> "ok", node |-> n, list |-> l]
Err(e) == [err |-> e, node |-> Nil, list |-> <<>>]

\* &State{}: no node, no cell, every thread idle
Fresh ==
  /\ registry = [n \in AllNames |-> Nil]
  /\ name = <<>>
  /\ text = <<>>
  /\ dead = <<>>
  /\ children = <<>>
  /\ cleanupCounter = <<>>
  /\ lockW = <<>>
  /\ lockR = <<>>
  /\ cells = <<>>
  /\ th = [t \in Threads |-> Idle]

\* The state after create(A) and cleanupFreq - 1 rounds of
\* create(B1); connect(A, B1); remove(B1); show(A): node 1 is "A", nodes
\* 2..cleanupFreq are the removed generations of "B1", each round's show has
\* cleared that round's cell, and A's map holds the last cell under key B1.
Aged ==
  /\ registry = [n \in AllNames |-> IF n = 0 THEN 1 ELSE Nil]
  /\ name = [i \in 1..cleanupFreq |-> IF i = 1 THEN 0 ELSE 1]
  /\ text = [i \in 1..cleanupFreq |-> 1]
  /\ dead = [i \in 1..cleanupFreq |-> i # 1]
  /\ children = [i \in 1..cleanupFreq |->
                  IF i = 1 /\ cleanupFreq > 1 THEN (1 :> (cleanupFreq - 1)) ELSE <<>>]
  /\ cleanupCounter = [i \in 1..cleanupFreq |-> IF i = 1 THEN cleanupFreq - 1 ELSE 0]
  /\ lockW = [i \in 1..cleanupFreq |-> Nil]
  /\ lockR = [i \in 1..cleanupFreq |-> {}]
  /\ cells = [i \in 1..(cleanupFreq - 1) |-> Nil]
  /\ th = [t \in Threads |-> Idle]

Init ==
  \/ Fresh /\ caller = [creates |-> MaxCreates, connects |-> MaxConnects, round |-> 0, idx |-> 0]
  \/ Aged /\ caller = [creates |-> AgedCreates, connects |-> AgedConnects, round |-> 0, idx |-> 0]

\* A caller invokes operation o with arguments a1, a2.
Begin(t, o, a1, a2) ==
  /\ th[t].pc \in {"idle", "done"}
  /\ th' = [th EXCEPT ![t] =
       [Idle EXCEPT !.pc = CASE o = "create" -> "create"
                             [] o = "remove" -> "remove"
                             [] o = "get" -> "get"
                             [] o = "connect" -> "connect_p"
                             [] o = "show" -> "show_get"
                             [] o = "child" -> "child_get"
                             [] o = "show_inline" -> "i_show_get"
                             [] o = "child_inline" -> "i_child_get",
                    !.op = o, !.a1 = a1, !.a2 = a2,
                    !.startDead = IF o = "show" THEN {x \in NodeIds : dead[x]} ELSE {}]]
  /\ UNCHANGED shared

----------------------------------------------------------------------------
\* State (src/state.go:124-162)

\* sync.Map.LoadOrStore: the registry after create's call
LoadOrStore(n, new) ==
  IF registry[n] = Nil THEN [registry EXCEPT ![n] = new] ELSE registry

\* mutant: Load in place of LoadAndDelete
LoadAndKeep(n) == registry

\* sync.Map.LoadAndDelete: the registry after remove's call
LoadAndDelete(n) == [registry EXCEPT ![n] = Nil]

\* mutant: Store in place of LoadOrStore
createStore(t) ==
  /\ th[t].pc = "create"
  /\ LET n == th[t].a1
         new == Len(dead) + 1
     IN /\ registry' = [registry EXCEPT ![n] = new]
        /\ th' = [th EXCEPT ![t] = Done(@, Ok(new, <<>>))]
        /\ name' = Append(name, n)
        /\ text' = Append(text, th[t].a2)
        /\ dead' = Append(dead, FALSE)
        /\ children' = Append(children, <<>>)
        /\ cleanupCounter' = Append(cleanupCounter, 0)
        /\ lockW' = Append(lockW, Nil)
        /\ lockR' = Append(lockR, {})
  /\ UNCHANGED <<cells, caller>>

\* mutant: create of an absent name takes a removed node of that name back
\* into the registry and clears its flag
createRevive(t) ==
  /\ th[t].pc = "create"
  /\ LET n == th[t].a1
         new == Len(dead) + 1
         old == {x \in NodeIds : name[x] = n /\ dead[x]}
     IN IF registry[n] # Nil
        THEN /\ th' = [th EXCEPT ![t] = Done(@, Err("AlreadyExists"))]
             /\ UNCHANGED <<registry, name, text, dead, children, cleanupCounter, lockW, lockR>>
        ELSE IF old # {}
        THEN LET x == CHOOSE x \in old : TRUE
             IN /\ registry' = [registry EXCEPT ![n] = x]
                /\ dead' = [dead EXCEPT ![x] = FALSE]
                /\ th' = [th EXCEPT ![t] = Done(@, Ok(x, <<>>))]
                /\ UNCHANGED <<name, text, children, cleanupCounter, lockW, lockR>>
        ELSE /\ registry' = [registry EXCEPT ![n] = new]
             /\ th' = [th EXCEPT ![t] = Done(@, Ok(new, <<>>))]
             /\ name' = Append(name, n)
             /\ text' = Append(text, th[t].a2)
             /\ dead' = Append(dead, FALSE)
             /\ children' = Append(children, <<>>)
             /\ cleanupCounter' = Append(cleanupCounter, 0)
             /\ lockW' = Append(lockW, Nil)
             /\ lockR' = Append(lockR, {})
  /\ UNCHANGED <<cells, caller>>

create(t) ==
  /\ th[t].pc = "create"
  /\ LET n == th[t].a1
         new == Len(dead) + 1
         loaded == registry[n] # Nil
     IN /\ registry' = LoadOrStore(n, new)
        /\ IF loaded
           THEN /\ th' = [th EXCEPT ![t] = Done(@, Err("AlreadyExists"))]
                /\ UNCHANGED <<name, text, dead, children, cleanupCounter, lockW, lockR>>
           ELSE /\ th' = [th EXCEPT ![t] = Done(@, Ok(new, <<>>))]
                /\ name' = Append(name, n)
                /\ text' = Append(text, th[t].a2)
                /\ dead' = Append(dead, FALSE)
                /\ children' = Append(children, <<>>)
                /\ cleanupCounter' = Append(cleanupCounter, 0)
                /\ lockW' = Append(lockW, Nil)
                /\ lockR' = Append(lockR, {})
  /\ UNCHANGED <<cells, caller>>

remove(t) ==
  /\ th[t].pc = "remove"
  /\ LET n == th[t].a1
         rawValue == registry[n]
     IN /\ registry' = LoadAndDelete(n)
        /\ IF rawValue = Nil
           THEN th' = [th EXCEPT ![t] = Done(@, Err("NotFound"))]
           ELSE th' = [th EXCEPT ![t].pc = "remove_dead", ![t].node = rawValue]
  /\ UNCHANGED <<name, text, dead, children, cleanupCounter, lockW, lockR, cells, caller>>

\* mutant: remove also empties every cell that references the removed node
removeStoreDeadUnlink(t) ==
  /\ th[t].pc = "remove_dead"
  /\ dead' = [dead EXCEPT ![th[t].node] = TRUE]
  /\ cells' = [p \in DOMAIN cells |-> IF cells[p] = th[t].node THEN Nil ELSE cells[p]]
  /\ th' = [th EXCEPT ![t] = Done(@, Ok(th[t].node, <<>>))]
  /\ UNCHANGED <<registry, name, text, children, cleanupCounter, lockW, lockR, caller>>

removeStoreDead(t) ==
  /\ th[t].pc = "remove_dead"
  /\ dead' = [dead EXCEPT ![th[t].node] = TRUE]
  /\ th' = [th EXCEPT ![t] = Done(@, Ok(th[t].node, <<>>))]
  /\ UNCHANGED <<registry, name, text, children, cleanupCounter, lockW, lockR, cells, caller>>

get(t) ==
  /\ th[t].pc = "get"
  /\ th' = [th EXCEPT ![t] =
       IF registry[th[t].a1] = Nil THEN Done(@, Err("absent"))
       ELSE Done(@, Ok(registry[th[t].a1], <<>>))]
  /\ UNCHANGED <<shared, caller>>

connectGetParent(t) ==
  /\ th[t].pc = "connect_p"
  /\ th' = [th EXCEPT ![t].pc = "connect_c", ![t].node = registry[th[t].a1]]
  /\ UNCHANGED <<shared, caller>>

\* mutant: only the child's lookup is tested
MissingChild(parentExists, childExists) == ~childExists

\* !parentExists || !childExists
Missing(parentExists, childExists) == ~parentExists \/ ~childExists

\* mutant: the child's lookup falls back on a removed node of that name
connectGetChildStale(t) ==
  /\ th[t].pc = "connect_c"
  /\ LET parentNode == th[t].node
         old == {x \in NodeIds : name[x] = th[t].a2 /\ dead[x]}
         childNode == IF registry[th[t].a2] = Nil /\ old # {}
                      THEN CHOOSE x \in old : TRUE ELSE registry[th[t].a2]
     IN th' = [th EXCEPT ![t] =
          IF Missing(parentNode # Nil, childNode # Nil)
          THEN Done(@, Err("NotFound"))
          ELSE [@ EXCEPT !.pc = "addChild_lock", !.cnode = childNode]]
  /\ UNCHANGED <<shared, caller>>

connectGetChild(t) ==
  /\ th[t].pc = "connect_c"
  /\ LET parentNode == th[t].node
         childNode == registry[th[t].a2]
     IN th' = [th EXCEPT ![t] =
          IF Missing(parentNode # Nil, childNode # Nil)
          THEN Done(@, Err("NotFound"))
          ELSE [@ EXCEPT !.pc = "addChild_lock", !.cnode = childNode]]
  /\ UNCHANGED <<shared, caller>>

----------------------------------------------------------------------------
\* Node (src/state.go:13-119)

\* sync.RWMutex: Lock and RLock can be taken
CanLock(x) == lockW[x] = Nil /\ lockR[x] = {}
CanRLock(x) == lockW[x] = Nil

\* mutant: a key already present is not overwritten, the link is added beside it
StoreChildBeside(x, key, cell) ==
  [children EXCEPT ![x] =
     ((IF key \in DOMAIN @ THEN key + Cardinality(AllNames) ELSE key) :> cell) @@ @]

\* node.children[child.name] = &ptr
StoreChild(x, key, cell) == [children EXCEPT ![x] = (key :> cell) @@ @]

\* delete(node.children, key)
DeleteKey(x, key) ==
  [children EXCEPT ![x] = [k \in (DOMAIN @) \ {key} |-> @[k]]]

addChildLock(t) ==
  /\ th[t].pc = "addChild_lock"
  /\ CanLock(th[t].node)
  /\ lockW' = [lockW EXCEPT ![th[t].node] = t]
  /\ th' = [th EXCEPT ![t].pc = "addChild_store"]
  /\ UNCHANGED <<registry, name, text, dead, children, cleanupCounter, lockR, cells, caller>>

\* mutant: a key that is present keeps its cell, and the child is stored
\* into that cell
addChildReuse(t) ==
  /\ th[t].pc = "addChild_store"
  /\ LET x == th[t].node
         c == th[t].cnode
     IN /\ IF name[c] \in DOMAIN children[x]
           THEN /\ cells' = [cells EXCEPT ![children[x][name[c]]] = c]
                /\ children' = children
           ELSE /\ cells' = Append(cells, c)
                /\ children' = StoreChild(x, name[c], Len(cells) + 1)
        /\ lockW' = [lockW EXCEPT ![x] = Nil]
  /\ th' = [th EXCEPT ![t] = Done(@, Ok(Nil, <<>>))]
  /\ UNCHANGED <<registry, name, text, dead, cleanupCounter, lockR, caller>>

\* ptr.Store(child); node.children[child.name] = &ptr; deferred Unlock
addChildStore(t) ==
  /\ th[t].pc = "addChild_store"
  /\ LET x == th[t].node
         c == th[t].cnode
     IN /\ cells' = Append(cells, c)
        /\ children' = StoreChild(x, name[c], Len(cells) + 1)
        /\ lockW' = [lockW EXCEPT ![x] = Nil]
  /\ th' = [th EXCEPT ![t] = Done(@, Ok(Nil, <<>>))]
  /\ UNCHANGED <<registry, name, text, dead, cleanupCounter, lockR, caller>>

\* the trigger of src/state.go:50
ShouldCleanup(newCount, len) ==
  newCount % cleanupFreq = 0 /\ newCount > 2 * len

\* mutant: the dead flag is not consulted
IsDeadRefNilOnly(c) == FALSE

\* the test of src/state.go:47
IsDeadRef(c) == c # Nil /\ dead[c]

\* getAndResetDead has returned (c, need) to its caller: getValidChildren
\* (operation show) goes on with its loop, child calls conditionalCleanup.
Resolved(r, c, need) ==
  IF r.op = "show"
  THEN [r EXCEPT !.pc = "gvc_loop", !.ptr = Nil, !.child = Nil,
                 !.valid = IF c # Nil THEN Append(@, c) ELSE @,
                 !.cleanupNeeded = @ \/ need]
  ELSE IF need
       THEN [r EXCEPT !.pc = "cleanup_lock", !.ptr = Nil, !.child = Nil]
       ELSE Done(r, Ok(c, <<>>))

\* child := ptr.Load(); child != nil && child.dead.Load()
Loaded(r, p) ==
  LET c == cells[p]
  IN IF IsDeadRef(c)
     THEN [r EXCEPT !.pc = "gard_cas", !.ptr = p, !.child = c]
     ELSE Resolved(r, c, FALSE)

getAndResetDeadLoad(t) ==
  /\ th[t].pc = "gard_load"
  /\ th' = [th EXCEPT ![t] = Loaded(@, th[t].ptr)]
  /\ UNCHANGED <<shared, caller>>

\* mutant: ptr.Store(nil) in place of the CompareAndSwap
getAndResetDeadStore(t) ==
  /\ th[t].pc = "gard_cas"
  /\ cells' = [cells EXCEPT ![th[t].ptr] = Nil]
  /\ th' = [th EXCEPT ![t].pc = "gard_add"]
  /\ UNCHANGED <<registry, name, text, dead, children, cleanupCounter, lockW, lockR, caller>>

\* ptr.CompareAndSwap(child, nil)
getAndResetDeadCas(t) ==
  /\ th[t].pc = "gard_cas"
  /\ LET p == th[t].ptr
     IN IF cells[p] = th[t].child
        THEN /\ cells' = [cells EXCEPT ![p] = Nil]
             /\ th' = [th EXCEPT ![t].pc = "gard_add"]
        ELSE /\ cells' = cells
             /\ th' = [th EXCEPT ![t] = Resolved(@, Nil, FALSE)]
  /\ UNCHANGED <<registry, name, text, dead, children, cleanupCounter, lockW, lockR, caller>>

\* newCount := node.cleanupCounter.Add(1) and the trigger on it.  len(node.children)
\* is read here; the map's writers are atomic steps, so the read sees the size
\* before or after a concurrent write.
getAndResetDeadAdd(t) ==
  /\ th[t].pc = "gard_add"
  /\ LET x == th[t].node
         newCount == cleanupCounter[x] + 1
     IN /\ cleanupCounter' = [cleanupCounter EXCEPT ![x] = newCount]
        /\ th' = [th EXCEPT ![t] =
             Resolved(@, Nil, ShouldCleanup(newCount, Cardinality(DOMAIN children[x])))]
  /\ UNCHANGED <<registry, name, text, dead, children, lockW, lockR, cells, caller>>

\* the map of node x as a compaction finds it when it has taken the lock:
\* under each key the cell and the cell's content
MapAtLock(x) ==
  [key \in DOMAIN children[x] |->
     [cell |-> children[x][key], content |-> cells[children[x][key]]]]

\* cleanup: Lock, currentCount := node.cleanupCounter.Load().  atLock is a
\* history field: it records the map at this moment and no action reads it.
cleanupLock(t) ==
  /\ th[t].pc = "cleanup_lock"
  /\ LET x == th[t].node
     IN /\ CanLock(x)
        /\ lockW' = [lockW EXCEPT ![x] = t]
        /\ th' = [th EXCEPT ![t].pc = "cleanup_loop",
                            ![t].currentCount = cleanupCounter[x],
                            ![t].ctodo = DOMAIN children[x],
                            ![t].atLock = MapAtLock(x)]
  /\ UNCHANGED <<registry, name, text, dead, children, cleanupCounter, lockR, cells, caller>>

\* mutant: the range deletes nothing
cleanupLoopKeep(t) ==
  /\ th[t].pc = "cleanup_loop"
  /\ \E key \in th[t].ctodo : th' = [th EXCEPT ![t].ctodo = @ \ {key}]
  /\ UNCHANGED <<shared, caller>>

\* mutant: the range deletes every entry, whatever its cell holds
cleanupLoopAll(t) ==
  /\ th[t].pc = "cleanup_loop"
  /\ \E key \in th[t].ctodo :
       /\ children' = DeleteKey(th[t].node, key)
       /\ th' = [th EXCEPT ![t].ctodo = @ \ {key}]
  /\ UNCHANGED <<registry, name, text, dead, cleanupCounter, lockW, lockR, cells, caller>>

\* one iteration of cleanup's range over node.children
cleanupLoop(t) ==
  /\ th[t].pc = "cleanup_loop"
  /\ \E key \in th[t].ctodo :
       LET x == th[t].node
       IN /\ children' = IF cells[children[x][key]] = Nil
                         THEN DeleteKey(x, key) ELSE children
          /\ th' = [th EXCEPT ![t].ctodo = @ \ {key}]
  /\ UNCHANGED <<registry, name, text, dead, cleanupCounter, lockW, lockR, cells, caller>>

\* mutant: the counter is overwritten with currentCount % cleanupFreq
cleanupFinishStore(t) ==
  /\ th[t].pc = "cleanup_loop"
  /\ th[t].ctodo = {}
  /\ LET x == th[t].node
     IN /\ cleanupCounter' = [cleanupCounter EXCEPT ![x] = th[t].currentCount % cleanupFreq]
        /\ lockW' = [lockW EXCEPT ![x] = Nil]
        /\ th' = [th EXCEPT ![t] =
             Done(@, IF th[t].op = "show" THEN Ok(x, th[t].valid) ELSE Ok(Nil, <<>>))]
  /\ UNCHANGED <<registry, name, text, dead, children, lockR, cells, caller>>

\* delta := currentCount - currentCount % cleanupFreq; Add(-delta); deferred Unlock
cleanupFinish(t) ==
  /\ th[t].pc = "cleanup_loop"
  /\ th[t].ctodo = {}
  /\ LET x == th[t].node
         delta == th[t].currentCount - (th[t].currentCount % cleanupFreq)
     IN /\ cleanupCounter' = [cleanupCounter EXCEPT ![x] = @ - delta]
        /\ lockW' = [lockW EXCEPT ![x] = Nil]
        /\ th' = [th EXCEPT ![t] =
             Done(@, IF th[t].op = "show" THEN Ok(x, th[t].valid) ELSE Ok(Nil, <<>>))]
  /\ UNCHANGED <<registry, name, text, dead, children, lockR, cells, caller>>

\* a caller holding the node of name a1 calls node.child(a2)
childGet(t) ==
  /\ th[t].pc = "child_get"
  /\ th' = [th EXCEPT ![t] =
       IF registry[th[t].a1] = Nil THEN Done(@, Err("absent"))
       ELSE [@ EXCEPT !.pc = "child_rlock", !.node = registry[th[t].a1]]]
  /\ UNCHANGED <<shared, caller>>

childRLock(t) ==
  /\ th[t].pc = "child_rlock"
  /\ CanRLock(th[t].node)
  /\ lockR' = [lockR EXCEPT ![th[t].node] = @ \cup {t}]
  /\ th' = [th EXCEPT ![t].pc = "child_lookup"]
  /\ UNCHANGED <<registry, name, text, dead, children, cleanupCounter, lockW, cells, caller>>

\* ptr, exists := node.children[childName]; RUnlock
childLookup(t) ==
  /\ th[t].pc = "child_lookup"
  /\ LET x == th[t].node
         exists == th[t].a2 \in DOMAIN children[x]
     IN /\ lockR' = [lockR EXCEPT ![x] = @ \ {t}]
        /\ th' = [th EXCEPT ![t] =
             IF exists THEN [@ EXCEPT !.pc = "gard_load", !.ptr = children[x][th[t].a2]]
             ELSE Done(@, Ok(Nil, <<>>))]
  /\ UNCHANGED <<registry, name, text, dead, children, cleanupCounter, lockW, cells, caller>>

showGet(t) ==
  /\ th[t].pc = "show_get"
  /\ th' = [th EXCEPT ![t] =
       IF registry[th[t].a1] = Nil THEN Done(@, Err("empty"))
       ELSE [@ EXCEPT !.pc = "gvc_rlock", !.node = registry[th[t].a1]]]
  /\ UNCHANGED <<shared, caller>>

getValidChildrenRLock(t) ==
  /\ th[t].pc = "gvc_rlock"
  /\ CanRLock(th[t].node)
  /\ lockR' = [lockR EXCEPT ![th[t].node] = @ \cup {t}]
  /\ th' = [th EXCEPT ![t].pc = "gvc_loop", ![t].todo = DOMAIN children[th[t].node]]
  /\ UNCHANGED <<registry, name, text, dead, children, cleanupCounter, lockW, cells, caller>>

\* one iteration of the range over node.children, up to getAndResetDead's load
getValidChildrenLoop(t) ==
  /\ th[t].pc = "gvc_loop"
  /\ \E key \in th[t].todo :
       th' = [th EXCEPT ![t] =
         Loaded([@ EXCEPT !.todo = @ \ {key}], children[th[t].node][key])]
  /\ UNCHANGED <<shared, caller>>

\* the thread record after getValidChildren's deferred calls: RUnlock is
\* registered last and runs first, conditionalCleanup(cleanupNeeded) after it
GvcReturned(r) ==
  IF r.cleanupNeeded
  THEN [r EXCEPT !.pc = "cleanup_lock"]
  ELSE Done(r, Ok(r.node, r.valid))

\* mutant: conditionalCleanup runs before the deferred RUnlock
GvcStillLocked(t) == lockR

\* the lock's readers after getValidChildren's deferred RUnlock
GvcUnlocked(t) == [lockR EXCEPT ![th[t].node] = @ \ {t}]

getValidChildrenReturn(t) ==
  /\ th[t].pc = "gvc_loop"
  /\ th[t].todo = {}
  /\ lockR' = GvcUnlocked(t)
  /\ th' = [th EXCEPT ![t] = GvcReturned(@)]
  /\ UNCHANGED <<registry, name, text, dead, children, cleanupCounter, lockW, cells, caller>>

----------------------------------------------------------------------------
\* Concurrent callers of the registry

Ops == {"create", "remove", "get", "connect", "show", "child"}

Call(t) ==
  \E o \in Ops, a1 \in Names, a2 \in Names \cup Texts :
    /\ o = "create" => a2 \in Texts /\ caller.creates > 0
    /\ o = "connect" => a2 \in Names /\ caller.connects > 0
    /\ o = "child" => a2 \in Names
    /\ o \in {"remove", "get", "show"} => a2 = Nil
    /\ Begin(t, o, a1, a2)
    /\ caller' = [caller EXCEPT !.creates = IF o = "create" THEN @ - 1 ELSE @,
                                 !.connects = IF o = "connect" THEN @ - 1 ELSE @]

Step(t) ==
  \/ create(t)
  \/ remove(t)
  \/ removeStoreDead(t)
  \/ get(t)
  \/ connectGetParent(t)
  \/ connectGetChild(t)
  \/ addChildLock(t)
  \/ addChildStore(t)
  \/ childGet(t)
  \/ childRLock(t)
  \/ childLookup(t)
  \/ showGet(t)
  \/ getValidChildrenRLock(t)
  \/ getValidChildrenLoop(t)
  \/ getValidChildrenReturn(t)
  \/ getAndResetDeadLoad(t)
  \/ getAndResetDeadCas(t)
  \/ getAndResetDeadAdd(t)
  \/ cleanupLock(t)
  \/ cleanupLoop(t)
  \/ cleanupFinish(t)

Next == \E t \in Threads : Call(t) \/ Step(t)

Spec == Init /\ [][Next]_vars

\* The same callers on the aged registry alone, with RacingConnects connects:
\* enough for a second link to be made while a compaction is pending.
InitAged ==
  Aged /\ caller = [creates |-> AgedCreates, connects |-> RacingConnects, round |-> 0, idx |-> 0]

SpecAged == InitAged /\ [][Next]_vars

----------------------------------------------------------------------------
\* main() of src/state.go (lines 181-207), run by thread 1, with
\* 2 * cleanupFreq children in place of 200.  The caller may run the scenario
\* again on the same State, up to MaxRounds times; the first round is main().

Call3(o, a1, a2) == [op |-> o, a1 |-> a1, a2 |-> a2]

RECURSIVE CreateAndConnect(_)
CreateAndConnect(i) ==
  IF i = 0 THEN <<>>
  ELSE CreateAndConnect(i - 1) \o <<Call3("create", i, 1), Call3("connect", 0, i)>>

MainScript ==
  <<Call3("create", 0, 1)>>
  \o CreateAndConnect(2 * cleanupFreq)
  \o <<Call3("show", 0, 0)>>
  \o [i \in MainChildren |-> Call3("remove", i, 0)]
  \o <<Call3("show", 0, 0)>>

InitMain ==
  /\ Fresh
  /\ caller = [creates |-> 0, connects |-> 0, round |-> 1, idx |-> 0]

\* main issues its next call when the previous one has returned
MainCall ==
  /\ caller.idx < Len(MainScript)
  /\ LET c == MainScript[caller.idx + 1] IN Begin(1, c.op, c.a1, c.a2)
  /\ caller' = [caller EXCEPT !.idx = @ + 1]

MainAgain ==
  /\ caller.idx = Len(MainScript)
  /\ th[1].pc = "done"
  /\ caller.round < MaxRounds
  /\ caller' = [caller EXCEPT !.round = @ + 1, !.idx = 0]
  /\ UNCHANGED <<shared, th>>

MainStep(t) ==
  \/ create(t)
  \/ remove(t)
  \/ removeStoreDead(t)
  \/ connectGetParent(t)
  \/ connectGetChild(t)
  \/ addChildLock(t)
  \/ addChildStore(t)
  \/ showGet(t)
  \/ getValidChildrenRLock(t)
  \/ getValidChildrenLoop(t)
  \/ getValidChildrenReturn(t)
  \/ getAndResetDeadCas(t)
  \/ getAndResetDeadAdd(t)
  \/ cleanupLock(t)
  \/ cleanupLoop(t)
  \/ cleanupFinish(t)

NextMain == MainCall \/ MainAgain \/ MainStep(1)

SpecMain == InitMain /\ [][NextMain]_vars

----------------------------------------------------------------------------
\* The inline-deletion variant (src/unnamed/part_000): getValidChildren
\* traverses under the exclusive lock and deletes cleared entries itself,
\* getAndResetDead calls maybeCleanup.  State, create, remove, get, connect
\* and addChild are the same code as in src/state.go.

\* the test of maybeCleanup (src/unnamed/part_000:86 and :92), negated
ShouldCleanupInline(currentCount, len) ==
  ~(currentCount % cleanupFreq # 0 \/ currentCount <= 2 * len)

\* getAndResetDead has returned c to its caller: getValidChildren (operation
\* show_inline) appends it or deletes the key, child returns it.
ReturnedInline(r, c) ==
  IF r.op = "show_inline"
  THEN [r EXCEPT !.pc = "i_gvc_loop", !.ptr = Nil, !.child = Nil,
                 !.valid = IF c # Nil THEN Append(@, c) ELSE @]
  ELSE Done(r, Ok(c, <<>>))

\* if child == nil { delete(node.children, key) } in getValidChildren
ChildrenAfterReturn(r, c) ==
  IF r.op = "show_inline" /\ c = Nil THEN DeleteKey(r.node, r.key) ELSE children

showGetInline(t) ==
  /\ th[t].pc = "i_show_get"
  /\ th' = [th EXCEPT ![t] =
       IF registry[th[t].a1] = Nil THEN Done(@, Err("empty"))
       ELSE [@ EXCEPT !.pc = "i_gvc_lock", !.node = registry[th[t].a1]]]
  /\ UNCHANGED <<shared, caller>>

getValidChildrenLockInline(t) ==
  /\ th[t].pc = "i_gvc_lock"
  /\ CanLock(th[t].node)
  /\ lockW' = [lockW EXCEPT ![th[t].node] = t]
  /\ th' = [th EXCEPT ![t].pc = "i_gvc_loop", ![t].todo = DOMAIN children[th[t].node]]
  /\ UNCHANGED <<registry, name, text, dead, children, cleanupCounter, lockR, cells, caller>>

\* one iteration of the range over node.children, up to getAndResetDead's load
getValidChildrenLoopInline(t) ==
  /\ th[t].pc = "i_gvc_loop"
  /\ \E key \in th[t].todo :
       LET r == [th[t] EXCEPT !.todo = @ \ {key}, !.key = key]
           p == children[th[t].node][key]
           c == cells[p]
       IN IF IsDeadRef(c)
          THEN /\ th' = [th EXCEPT ![t] = [r EXCEPT !.pc = "i_gard_cas", !.ptr = p, !.child = c]]
               /\ children' = children
          ELSE /\ th' = [th EXCEPT ![t] = ReturnedInline(r, c)]
               /\ children' = ChildrenAfterReturn(r, c)
  /\ UNCHANGED <<registry, name, text, dead, cleanupCounter, lockW, lockR, cells, caller>>

\* the range is over: deferred Unlock, return valid
getValidChildrenReturnInline(t) ==
  /\ th[t].pc = "i_gvc_loop"
  /\ th[t].todo = {}
  /\ lockW' = [lockW EXCEPT ![th[t].node] = Nil]
  /\ th' = [th EXCEPT ![t] = Done(@, Ok(th[t].node, th[t].valid))]
  /\ UNCHANGED <<registry, name, text, dead, children, cleanupCounter, lockR, cells, caller>>

getAndResetDeadLoadInline(t) ==
  /\ th[t].pc = "i_gard_load"
  /\ LET c == cells[th[t].ptr]
     IN th' = [th EXCEPT ![t] =
          IF IsDeadRef(c) THEN [@ EXCEPT !.pc = "i_gard_cas", !.child = c]
          ELSE ReturnedInline(@, c)]
  /\ UNCHANGED <<shared, caller>>

getAndResetDeadCasInline(t) ==
  /\ th[t].pc = "i_gard_cas"
  /\ LET p == th[t].ptr
     IN IF cells[p] = th[t].child
        THEN /\ cells' = [cells EXCEPT ![p] = Nil]
             /\ th' = [th EXCEPT ![t].pc = "i_gard_add"]
             /\ children' = children
        ELSE /\ cells' = cells
             /\ th' = [th EXCEPT ![t] = ReturnedInline(@, Nil)]
             /\ children' = ChildrenAfterReturn(th[t], Nil)
  /\ UNCHANGED <<registry, name, text, dead, cleanupCounter, lockW, lockR, caller>>

\* newCount := node.cleanupCounter.Add(1); maybeCleanup(newCount) up to its
\* first test, made before the lock is asked for
getAndResetDeadAddInline(t) ==
  /\ th[t].pc = "i_gard_add"
  /\ LET x == th[t].node
         newCount == cleanupCounter[x] + 1
     IN /\ cleanupCounter' = [cleanupCounter EXCEPT ![x] = newCount]
        /\ IF ShouldCleanupInline(newCount, Cardinality(DOMAIN children[x]))
           THEN /\ th' = [th EXCEPT ![t].pc = "i_mc_lock"]
                /\ children' = children
           ELSE /\ th' = [th EXCEPT ![t] = ReturnedInline(@, Nil)]
                /\ children' = ChildrenAfterReturn(th[t], Nil)
  /\ UNCHANGED <<registry, name, text, dead, lockW, lockR, cells, caller>>

\* maybeCleanup: Lock, currentCount = node.cleanupCounter.Load(), the test
\* again; when it fails the deferred Unlock runs and getAndResetDead returns
maybeCleanupLock(t) ==
  /\ th[t].pc = "i_mc_lock"
  /\ LET x == th[t].node
         currentCount == cleanupCounter[x]
     IN /\ CanLock(x)
        /\ IF ShouldCleanupInline(currentCount, Cardinality(DOMAIN children[x]))
           THEN /\ lockW' = [lockW EXCEPT ![x] = t]
                /\ th' = [th EXCEPT ![t].pc = "i_mc_loop",
                                    ![t].currentCount = currentCount,
                                    ![t].ctodo = DOMAIN children[x]]
                /\ children' = children
           ELSE /\ lockW' = lockW
                /\ th' = [th EXCEPT ![t] = ReturnedInline(@, Nil)]
                /\ children' = ChildrenAfterReturn(th[t], Nil)
  /\ UNCHANGED <<registry, name, text, dead, cleanupCounter, lockR, cells, caller>>

maybeCleanupLoop(t) ==
  /\ th[t].pc = "i_mc_loop"
  /\ \E key \in th[t].ctodo :
       LET x == th[t].node
       IN /\ children' = IF cells[children[x][key]] = Nil
                         THEN DeleteKey(x, key) ELSE children
          /\ th' = [th EXCEPT ![t].ctodo = @ \ {key}]
  /\ UNCHANGED <<registry, name, text, dead, cleanupCounter, lockW, lockR, cells, caller>>

\* delta := currentCount - currentCount % cleanupFreq; Add(^(delta - 1)), which
\* on uint64 subtracts delta (delta is at most the counter); deferred Unlock
maybeCleanupFinish(t) ==
  /\ th[t].pc = "i_mc_loop"
  /\ th[t].ctodo = {}
  /\ LET x == th[t].node
         delta == th[t].currentCount - (th[t].currentCount % cleanupFreq)
     IN /\ cleanupCounter' = [cleanupCounter EXCEPT ![x] = @ - delta]
        /\ lockW' = [lockW EXCEPT ![x] = Nil]
        /\ th' = [th EXCEPT ![t] = ReturnedInline(@, Nil)]
        /\ children' = ChildrenAfterReturn(th[t], Nil)
  /\ UNCHANGED <<registry, name, text, dead, lockR, cells, caller>>

childGetInline(t) ==
  /\ th[t].pc = "i_child_get"
  /\ th' = [th EXCEPT ![t] =
       IF registry[th[t].a1] = Nil THEN Done(@, Err("absent"))
       ELSE [@ EXCEPT !.pc = "i_child_rlock", !.node = registry[th[t].a1]]]
  /\ UNCHANGED <<shared, caller>>

childRLockInline(t) ==
  /\ th[t].pc = "i_child_rlock"
  /\ CanRLock(th[t].node)
  /\ lockR' = [lockR EXCEPT ![th[t].node] = @ \cup {t}]
  /\ th' = [th EXCEPT ![t].pc = "i_child_lookup"]
  /\ UNCHANGED <<registry, name, text, dead, children, cleanupCounter, lockW, cells, caller>>

childLookupInline(t) ==
  /\ th[t].pc = "i_child_lookup"
  /\ LET x == th[t].node
         exists == th[t].a2 \in DOMAIN children[x]
     IN /\ lockR' = [lockR EXCEPT ![x] = @ \ {t}]
        /\ th' = [th EXCEPT ![t] =
             IF exists THEN [@ EXCEPT !.pc = "i_gard_load", !.ptr = children[x][th[t].a2]]
             ELSE Done(@, Ok(Nil, <<>>))]
  /\ UNCHANGED <<registry, name, text, dead, children, cleanupCounter, lockW, cells, caller>>

\* The state of the inline variant after create(A) and cleanupFreq - 1 rounds
\* of create(B1); connect(A, B1); remove(B1); show(A): as Aged, but each
\* show has deleted the entry it cleared.
AgedInline ==
  /\ registry = [n \in AllNames |-> IF n = 0 THEN 1 ELSE Nil]
  /\ name = [i \in 1..cleanupFreq |-> IF i = 1 THEN 0 ELSE 1]
  /\ text = [i \in 1..cleanupFreq |-> 1]
  /\ dead = [i \in 1..cleanupFreq |-> i # 1]
  /\ children = [i \in 1..cleanupFreq |-> <<>>]
  /\ cleanupCounter = [i \in 1..cleanupFreq |-> IF i = 1 THEN cleanupFreq - 1 ELSE 0]
  /\ lockW = [i \in 1..cleanupFreq |-> Nil]
  /\ lockR = [i \in 1..cleanupFreq |-> {}]
  /\ cells = [i \in 1..(cleanupFreq - 1) |-> Nil]
  /\ th = [t \in Threads |-> Idle]

InitInline ==
  \/ Fresh /\ caller = [creates |-> MaxCreates, connects |-> MaxConnects, round |-> 0, idx |-> 0]
  \/ AgedInline /\ caller = [creates |-> AgedCreates, connects |-> AgedConnects, round |-> 0, idx |-> 0]

OpsInline == {"create", "remove", "get", "connect", "show_inline", "child_inline"}

CallInline(t) ==
  \E o \in OpsInline, a1 \in Names, a2 \in Names \cup Texts :
    /\ o = "create" => a2 \in Texts /\ caller.creates > 0
    /\ o = "connect" => a2 \in Names /\ caller.connects > 0
    /\ o = "child_inline" => a2 \in Names
    /\ o \in {"remove", "get", "show_inline"} => a2 = Nil
    /\ Begin(t, o, a1, a2)
    /\ caller' = [caller EXCEPT !.creates = IF o = "create" THEN @ - 1 ELSE @,
                                 !.connects = IF o = "connect" THEN @ - 1 ELSE @]

StepInline(t) ==
  \/ create(t)
  \/ remove(t)
  \/ removeStoreDead(t)
  \/ get(t)
  \/ connectGetParent(t)
  \/ connectGetChild(t)
  \/ addChildLock(t)
  \/ addChildStore(t)
  \/ childGetInline(t)
  \/ childRLockInline(t)
  \/ childLookupInline(t)
  \/ showGetInline(t)
  \/ getValidChildrenLockInline(t)
  \/ getValidChildrenLoopInline(t)
  \/ getValidChildrenReturnInline(t)
  \/ getAndResetDeadLoadInline(t)
  \/ getAndResetDeadCasInline(t)
  \/ getAndResetDeadAddInline(t)
  \/ maybeCleanupLock(t)
  \/ maybeCleanupLoop(t)
  \/ maybeCleanupFinish(t)

NextInline == \E t \in Threads : CallInline(t) \/ StepInline(t)

SpecInline == InitInline /\ [][NextInline]_vars

----------------------------------------------------------------------------
\* Properties

\* thread t takes this step
Moved(t) == th'[t] # th[t]

\* the node thread t has taken out of the registry by a successful remove
RemovedBy(t) ==
  IF th[t].pc = "remove_dead" THEN th[t].node
  ELSE IF th[t].op = "remove" /\ th[t].pc = "done" /\ th[t].res.err = "ok"
       THEN th[t].res.node ELSE Nil

Range(f) == {f[i] : i \in DOMAIN f}

\* C1: a show that starts after remove(c) has returned (c's dead flag was set
\* when the show was called) never collects the node c into its children
\* list, whatever the other threads do and whether or not cleanup has run.
\* Nodes are identified by id: a node re-created under c's name is another node.
ShowOmitsRemoved ==
  \A t \in Threads :
    th[t].op = "show" => Range(th[t].valid) \cap th[t].startDead = {}

\* C1 witness: a show called after the removal has walked the whole map of a
\* parent that still holds an entry under the removed node's name, and is
\* about to return without it.
ShowOmitsRemovedWitness ==
  \E t \in Threads :
    /\ th[t].op = "show" /\ th[t].pc = "gvc_loop" /\ th[t].todo = {}
    /\ \E c \in th[t].startDead : name[c] \in DOMAIN children[th[t].node]

\* C3: a thread that is about to take the exclusive lock in cleanup holds
\* that node's lock neither shared nor exclusively.
CleanupStartsUnlocked ==
  \A t \in Threads :
    th[t].pc = "cleanup_lock" =>
      t \notin lockR[th[t].node] /\ lockW[th[t].node] # t

\* C3 witness: getValidChildren has signalled cleanup and the thread stands
\* before cleanup's Lock.
CleanupStartsUnlockedWitness ==
  \E t \in Threads : th[t].op = "show" /\ th[t].pc = "cleanup_lock"

\* C5: every registered name maps to a node whose dead flag is false.
RegisteredNotDead ==
  \A n \in AllNames : registry[n] # Nil => ~dead[registry[n]]

\* C5 witness: a dead node exists while its name is registered again.
RegisteredNotDeadWitness ==
  \E x \in NodeIds : dead[x] /\ registry[name[x]] # Nil

\* C6: the registry entry of a name changes only when a create of that name
\* stores a new node into the absent entry or a remove of that name deletes
\* it, and get returns the entry as it is: so get(n) returns the created node
\* from a successful create(n) until a successful remove(n), and absence from
\* then until the next create(n), whatever is done to other names.
GetFollowsCreateRemoveStep ==
  \A n \in AllNames :
    /\ registry'[n] # registry[n] =>
         \E t \in Threads :
           /\ th[t].a1 = n
           /\ \/ /\ th[t].pc = "create" /\ registry[n] = Nil
                 /\ registry'[n] \notin NodeIds \cup {Nil}
                 /\ th'[t].pc = "done" /\ th'[t].res = Ok(registry'[n], <<>>)
              \/ /\ th[t].pc = "remove" /\ registry'[n] = Nil
                 /\ th'[t].pc = "remove_dead" /\ th'[t].node = registry[n]
    /\ \A t \in Threads :
         /\ th[t].pc = "remove" /\ th[t].a1 = n /\ Moved(t) /\ registry[n] # Nil
              => registry'[n] = Nil
         /\ th[t].pc = "get" /\ th[t].a1 = n /\ Moved(t) =>
              /\ th'[t].pc = "done"
              /\ th'[t].res = IF registry[n] = Nil THEN Err("absent")
                              ELSE Ok(registry[n], <<>>)

GetFollowsCreateRemove == [][GetFollowsCreateRemoveStep]_vars

\* C6 witness: get reported absence for a name whose node was removed.
GetFollowsCreateRemoveWitness ==
  \E t \in Threads :
    /\ th[t].op = "get" /\ th[t].pc = "done" /\ th[t].res.err = "absent"
    /\ \E x \in NodeIds : name[x] = th[t].a1 /\ dead[x]

\* C7: remove of a name that is not registered returns NotFound and changes
\* nothing; remove of a registered name takes the node out; no node is taken
\* out by two removes.
RemoveFailsOnceStep ==
  /\ \A t \in Threads :
       th[t].pc = "remove" /\ Moved(t) =>
         IF registry[th[t].a1] = Nil
         THEN /\ th'[t].pc = "done" /\ th'[t].res = Err("NotFound")
              /\ UNCHANGED shared
         ELSE /\ th'[t].pc = "remove_dead" /\ th'[t].node = registry[th[t].a1]
              /\ registry'[th[t].a1] = Nil
  /\ \A t, u \in Threads :
       t # u /\ RemovedBy(t)' # Nil => RemovedBy(t)' # RemovedBy(u)'

RemoveFailsOnce == [][RemoveFailsOnceStep]_vars

\* C7 witness: of two removes of one name, one has succeeded and the other
\* has returned NotFound.
RemoveFailsOnceWitness ==
  \E t, u \in Threads :
    /\ t # u /\ th[t].a1 = th[u].a1
    /\ th[t].op = "remove" /\ th[t].pc = "done" /\ th[t].res.err = "ok"
    /\ th[u].op = "remove" /\ th[u].pc = "done" /\ th[u].res.err = "NotFound"

\* C8: the two lookups of connect change nothing; when the parent's lookup
\* or the child's lookup finds no node, connect returns NotFound there and
\* then, so a failing connect has changed no map, registry entry, flag or
\* counter; a connect that reaches addChild holds both nodes.
ConnectNotFoundStep ==
  /\ \A t \in Threads :
       /\ th[t].pc \in {"connect_p", "connect_c"} /\ Moved(t) => UNCHANGED shared
       /\ th[t].pc = "connect_p" /\ Moved(t) => th'[t].node = registry[th[t].a1]
       /\ th[t].pc = "connect_c" /\ Moved(t)
            /\ (th[t].node = Nil \/ registry[th[t].a2] = Nil) =>
              th'[t].pc = "done" /\ th'[t].res = Err("NotFound")
       /\ th'[t].pc \in {"addChild_lock", "addChild_store"} =>
            th'[t].node # Nil /\ th'[t].cnode # Nil

ConnectNotFound == [][ConnectNotFoundStep]_vars

\* C8 witness: a connect has returned NotFound while some node holds a link.
ConnectNotFoundWitness ==
  \E t \in Threads :
    /\ th[t].op = "connect" /\ th[t].pc = "done" /\ th[t].res.err = "NotFound"
    /\ \E x \in NodeIds : DOMAIN children[x] # {}

\* C9: create of a registered name returns AlreadyExists and changes nothing;
\* create of an absent name registers a new node; the node of a successful
\* create stays registered until a remove takes it, so two creates of an
\* absent name cannot both succeed.
CreateOnceStep ==
  /\ \A t \in Threads :
       th[t].pc = "create" /\ Moved(t) =>
         IF registry[th[t].a1] # Nil
         THEN /\ th'[t].pc = "done" /\ th'[t].res = Err("AlreadyExists")
              /\ UNCHANGED shared
         ELSE /\ th'[t].pc = "done" /\ th'[t].res = Ok(Len(dead) + 1, <<>>)
              /\ registry'[th[t].a1] = Len(dead) + 1
  /\ \A t \in Threads :
       (th[t].op = "create" /\ th[t].pc = "done" /\ th[t].res.err = "ok")' =>
         (\/ registry[th[t].a1] = th[t].res.node
          \/ dead[th[t].res.node]
          \/ \E u \in Threads : RemovedBy(u) = th[t].res.node)'

CreateOnce == [][CreateOnceStep]_vars

\* C9 witness: of two creates of one name, one has succeeded and the other
\* has returned AlreadyExists.
CreateOnceWitness ==
  \E t, u \in Threads :
    /\ t # u /\ th[t].a1 = th[u].a1
    /\ th[t].op = "create" /\ th[t].pc = "done" /\ th[t].res.err = "ok"
    /\ th[u].op = "create" /\ th[u].pc = "done" /\ th[u].res.err = "AlreadyExists"

\* a show that has walked the whole map has collected every child that is
\* still referenced and not dead
ShowListsLive ==
  \A t \in Threads :
    th[t].op = "show" /\ th[t].pc = "gvc_loop" /\ th[t].todo = {} =>
      \A key \in DOMAIN children[th[t].node] :
        LET c == cells[children[th[t].node][key]]
        IN c # Nil /\ ~dead[c] => c \in Range(th[t].valid)

\* C10: addChild on a key that is present replaces the cell under that key
\* and leaves the map's size as it was; the cell under a key references a
\* node of that name or nothing; a show lists every live child and no name
\* twice.
ConnectOverwritesStep ==
  /\ \A t \in Threads :
       th[t].pc = "addChild_store" /\ Moved(t) =>
         LET x == th[t].node
             key == name[th[t].cnode]
         IN /\ key \in DOMAIN children'[x]
            /\ cells'[children'[x][key]] = th[t].cnode
            /\ key \in DOMAIN children[x] =>
                 /\ DOMAIN children'[x] = DOMAIN children[x]
                 /\ children'[x][key] # children[x][key]
  /\ \A x \in NodeIds : \A key \in DOMAIN children[x] :
       cells[children[x][key]] # Nil => name[cells[children[x][key]]] = key
  /\ \A t \in Threads :
       \A i, j \in DOMAIN th'[t].valid :
         i # j => name[th'[t].valid[i]] # name[th'[t].valid[j]]
  /\ ShowListsLive'

ConnectOverwrites == [][ConnectOverwritesStep]_vars

\* C10 witness: after two connects of one pair, show has listed the child once.
ConnectOverwritesWitness ==
  \E t \in Threads :
    /\ th[t].op = "show" /\ th[t].pc = "done" /\ Len(th[t].res.list) = 1
    /\ \E i, j \in CellIds :
         /\ i # j /\ cells[i] = th[t].res.list[1] /\ cells[j] = cells[i]
         /\ Range(children[th[t].res.node]) \cap {i, j} # {}
         /\ Cardinality(DOMAIN children[th[t].res.node]) = 1

\* C2: when main() has removed the 2 * cleanupFreq children of A, the show(A)
\* that follows returns no child and leaves A's map with fewer than
\* 2 * cleanupFreq entries.
MainShowCompacts ==
  (caller.round = 1 /\ caller.idx = Len(MainScript) /\ th[1].pc = "done") =>
    /\ th[1].res.list = <<>>
    /\ Cardinality(DOMAIN children[registry[0]]) < 2 * cleanupFreq

\* C4: in the inline variant no thread waits for a node's lock that can never
\* be released to it: a thread asking for the exclusive lock in maybeCleanup
\* does not hold that lock itself (sync.RWMutex is not reentrant, so a thread
\* that does waits forever and its show never returns).
InlineShowNeverBlocksForever ==
  \A t \in Threads :
    th[t].pc = "i_mc_lock" => lockW[th[t].node] # t

\* C11: a successful remove(n) changes the registry entry of n, which it
\* deletes, and the dead flag of the node it took out, which it sets, and
\* nothing else: no node's child map, no cell, no counter, no lock and no
\* other registry entry or flag.
RemoveFrameStep ==
  \A t \in Threads :
    th[t].pc \in {"remove", "remove_dead"} /\ Moved(t) =>
      /\ UNCHANGED <<name, text, children, cleanupCounter, cells, lockW, lockR>>
      /\ \A m \in AllNames : m # th[t].a1 => registry'[m] = registry[m]
      /\ IF th[t].pc = "remove"
         THEN registry'[th[t].a1] = Nil /\ dead' = dead
         ELSE /\ registry' = registry
              /\ DOMAIN dead' = DOMAIN dead
              /\ \A x \in NodeIds : dead'[x] = (dead[x] \/ x = th[t].node)

RemoveFrame == [][RemoveFrameStep]_vars

\* C11 witness: a remove has returned its node while a parent's map still
\* holds the cell that references it and another name is still registered.
RemoveFrameWitness ==
  \E t \in Threads :
    /\ th[t].op = "remove" /\ th[t].pc = "done" /\ th[t].res.err = "ok"
    /\ dead[th[t].res.node]
    /\ \E x \in NodeIds : \E key \in DOMAIN children[x] :
         cells[children[x][key]] = th[t].res.node
    /\ \E m \in AllNames : m # th[t].a1 /\ registry[m] # Nil

\* a map entry is deleted only by the compaction that holds the node's lock
\* exclusively, only when its range reaches it, and only if its cell is empty
\* at that moment; while a compaction holds the lock the entries that stay
\* keep their cell; the cell of an entry it has deleted is empty
CleanupDeletesNilStep ==
  /\ \A x \in NodeIds : \A key \in DOMAIN children[x] :
       key \notin DOMAIN children'[x] =>
         /\ cells[children[x][key]] = Nil
         /\ \E t \in Threads :
              /\ th[t].pc = "cleanup_loop" /\ th[t].node = x /\ lockW[x] = t
              /\ Moved(t) /\ key \in th[t].ctodo
  /\ \A t \in Threads :
       th[t].pc = "cleanup_loop" =>
         LET x == th[t].node
         IN /\ \A key \in DOMAIN children[x] \cap DOMAIN children'[x] :
                 children'[x][key] = children[x][key]
            /\ DOMAIN children'[x] \subseteq DOMAIN children[x]
            /\ \A key \in DOMAIN th[t].atLock :
                 IF key \in DOMAIN children[x]
                 THEN children[x][key] = th[t].atLock[key].cell
                 ELSE cells[th[t].atLock[key].cell] = Nil

\* every entry whose cell was not empty when the compaction took the lock is
\* in the map under the same cell
KeptFromStart ==
  \A t \in Threads :
    th[t].pc = "cleanup_loop" =>
      \A key \in DOMAIN th[t].atLock :
        th[t].atLock[key].content # Nil =>
          /\ key \in DOMAIN children[th[t].node]
          /\ children[th[t].node][key] = th[t].atLock[key].cell

\* C12 as stated: compaction deletes only entries whose cell is empty when
\* it inspects them under the exclusive lock, never one whose cell references
\* a node, and every entry whose cell is not empty when the compaction starts
\* is still in the map, under the same cell, when it ends.
CleanupKeepsStartEntries == [][CleanupDeletesNilStep /\ KeptFromStart']_vars

\* C12 as amended: compaction deletes only entries whose cell is empty when
\* it inspects them under the exclusive lock; an entry whose cell references
\* a node when it is inspected stays in the map under the same cell until the
\* compaction ends.  (An entry whose cell is not empty when the compaction
\* starts can be emptied by a concurrent child lookup before the range
\* reaches it, and is then deleted.)
CleanupDeletesNil == [][CleanupDeletesNilStep]_vars

\* C12 witness: a compaction has ranged over the whole map, has deleted an
\* entry and has kept an entry whose cell references a node.
CleanupDeletesNilWitness ==
  \E t \in Threads :
    /\ th[t].pc = "cleanup_loop" /\ th[t].ctodo = {}
    /\ DOMAIN th[t].atLock # DOMAIN children[th[t].node]
    /\ \E key \in DOMAIN children[th[t].node] :
         cells[children[th[t].node][key]] # Nil

\* thread t holds the lock of node x, shared or exclusively
HoldsLock(t, x) == t \in lockR[x] \/ lockW[x] = t

\* C13: the child map of a node changes only in a step of a thread that
\* holds the node's lock exclusively, and every step that reads the map (the
\* lookup of child, the ranges of getValidChildren and cleanup, and the size
\* read by the compaction trigger in getAndResetDead) is taken by a thread
\* that holds the lock at least shared; so no thread stands before the read
\* of the size while another thread holds the lock exclusively.
MapAccessLockedStep ==
  /\ \A x \in NodeIds :
       children'[x] # children[x] => \E t \in Threads : Moved(t) /\ lockW[x] = t
  /\ \A t \in Threads :
       /\ th[t].pc \in {"child_lookup", "gvc_loop", "gard_add", "cleanup_loop"} /\ Moved(t)
            => HoldsLock(t, th[t].node)
       /\ th[t].pc = "gard_add" => lockW[th[t].node] \in {Nil, t}

DeadIsMonotoneStep ==
  /\ NodeIds \subseteq DOMAIN dead'
  /\ \A x \in NodeIds : dead[x] => dead'[x]
  /\ \A x \in (DOMAIN dead') \ NodeIds : ~dead'[x]

DeadIsMonotone == [][DeadIsMonotoneStep]_vars

\* C14 witness: a create has registered a new node under the name of a
\* removed node, and the removed node is still dead.
DeadIsMonotoneWitness ==
  \E t \in Threads :
    /\ th[t].op = "create" /\ th[t].pc = "done" /\ th[t].res.err = "ok"
    /\ ~dead[th[t].res.node]
    /\ \E x \in NodeIds : x # th[t].res.node /\ name[x] = th[t].a1 /\ dead[x]

\* C15: a cell goes from a node reference to empty only in the
\* CompareAndSwap of one resolver, which alone goes on to increment; a
\* resolver goes on to increment only if its CompareAndSwap emptied the cell;
\* no two resolvers stand before the increment for one cell; a counter grows
\* only by one, in the increment of a resolver on that node, and every such
\* resolver increments; every resolver that found the dead reference returns
\* no node.
SingleResolverStep ==
  /\ \A p \in CellIds :
       cells[p] # Nil /\ cells'[p] = Nil =>
         /\ cleanupCounter' = cleanupCounter
         /\ \E t \in Threads :
              /\ th[t].pc = "gard_cas" /\ th[t].ptr = p /\ th[t].child = cells[p]
              /\ th'[t].pc = "gard_add"
              /\ \A u \in Threads \ {t} : ~Moved(u)
  /\ \A t \in Threads :
       /\ th[t].pc # "gard_add" /\ th'[t].pc = "gard_add" =>
            cells[th[t].ptr] # Nil /\ cells'[th[t].ptr] = Nil /\ th'[t].ptr = th[t].ptr
       /\ th[t].pc = "gard_add" /\ Moved(t) =>
            cleanupCounter'[th[t].node] = cleanupCounter[th[t].node] + 1
       /\ th[t].pc \in {"gard_cas", "gard_add"} /\ Moved(t) =>
            /\ th'[t].valid = IF th[t].op = "show" /\ th'[t].pc # "done" THEN th[t].valid ELSE <<>>
            /\ th'[t].pc = "done" =>
                 th'[t].res = IF th[t].op = "show" THEN Ok(th[t].node, th[t].valid)
                              ELSE Ok(Nil, <<>>)
  /\ \A t, u \in Threads :
       t # u /\ th'[t].pc = "gard_add" /\ th'[u].pc = "gard_add" => th'[t].ptr # th'[u].ptr
  /\ \A x \in NodeIds :
       cleanupCounter'[x] > cleanupCounter[x] =>
         /\ cleanupCounter'[x] = cleanupCounter[x] + 1
         /\ \E t \in Threads : th[t].pc = "gard_add" /\ th[t].node = x /\ Moved(t)

SingleResolver == [][SingleResolverStep]_vars

\* C15 witness: two threads resolve one cell; the first has won the
\* CompareAndSwap and stands before the increment, the second holds the dead
\* reference it loaded and stands before a CompareAndSwap that will fail.
SingleResolverWitness ==
  \E t, u \in Threads :
    /\ t # u /\ th[t].ptr = th[u].ptr
    /\ th[t].pc = "gard_add" /\ th[u].pc = "gard_cas"
    /\ cells[th[u].ptr] = Nil /\ th[u].child # Nil

\* C16: no counter is ever negative; a counter decreases only in the last
\* step of a compaction of its node; the value a compaction read under the
\* lock never exceeds the counter; and the compaction subtracts exactly the
\* largest multiple of cleanupFreq that does not exceed the value it read, so
\* the counter keeps its remainder modulo cleanupFreq, also when it was
\* incremented between the read and the subtraction.
CounterCompactionStep ==
  /\ \A x \in NodeIds : cleanupCounter[x] >= 0 /\ cleanupCounter'[x] >= 0
  /\ \A x \in NodeIds :
       cleanupCounter'[x] < cleanupCounter[x] =>
         \E t \in Threads :
           /\ th[t].pc = "cleanup_loop" /\ th[t].node = x /\ th[t].ctodo = {}
           /\ lockW[x] = t /\ th'[t].pc = "done"
  /\ \A t \in Threads :
       th[t].pc = "cleanup_loop" =>
         LET x == th[t].node
             currentCount == th[t].currentCount
             subtracted == cleanupCounter[x] - cleanupCounter'[x]
         IN /\ 0 <= currentCount /\ currentCount <= cleanupCounter[x]
            /\ th'[t].pc = "done" =>
                 /\ subtracted % cleanupFreq = 0
                 /\ subtracted <= currentCount /\ currentCount < subtracted + cleanupFreq
                 /\ cleanupCounter'[x] % cleanupFreq = cleanupCounter[x] % cleanupFreq

CounterCompaction == [][CounterCompactionStep]_vars

\* C16 witness: a compaction stands before its subtraction of a non-zero
\* multiple while the counter has been incremented since the compaction
\* read it.
CounterCompactionWitness ==
  \E t \in Threads :
    /\ th[t].pc = "cleanup_loop" /\ th[t].ctodo = {}
    /\ th[t].currentCount >= cleanupFreq
    /\ cleanupCounter[th[t].node] > th[t].currentCount

\* C17: a compaction that finds, once it holds the exclusive lock, that the
\* trigger (counter % cleanupFreq = 0 and counter > 2 * number of entries) does
\* not hold for the counter and the map as they are at that moment, deletes
\* no entry and leaves the counter as it is.
CleanupRechecksStep ==
  \A t \in Threads :
    /\ th[t].pc = "cleanup_loop" /\ Moved(t)
    /\ ~ShouldCleanup(th[t].currentCount, Cardinality(DOMAIN th[t].atLock))
    => children' = children /\ cleanupCounter' = cleanupCounter

CleanupRechecks == [][CleanupRechecksStep]_vars

\* C18: no cell disappears; the content of a cell changes only from a node
\* reference to empty, so at most once, never from empty to a node and never
\* from one node to another; a new cell appears only in addChild, which puts
\* a cell that did not exist before under the child's name and changes no
\* existing cell.
CellWriteOnceStep ==
  /\ CellIds \subseteq DOMAIN cells'
  /\ \A p \in CellIds : cells'[p] # cells[p] => cells[p] # Nil /\ cells'[p] = Nil
  /\ DOMAIN cells' # DOMAIN cells =>
       \E t \in Threads : th[t].pc = "addChild_store" /\ Moved(t)
  /\ \A t \in Threads :
       th[t].pc = "addChild_store" /\ Moved(t) =>
         LET new == children'[th[t].node][name[th[t].cnode]]
         IN /\ new \notin CellIds
            /\ cells'[new] = th[t].cnode
            /\ \A p \in CellIds : cells'[p] = cells[p]

CellWriteOnce == [][CellWriteOnceStep]_vars

\* C18 witness: a connect has linked a child under a key whose earlier cell
\* had been emptied: the key holds a new cell that references the child and
\* the emptied cell, no longer in the map, is still empty.
CellWriteOnceWitness ==
  \E t \in Threads :
    /\ th[t].op = "connect" /\ th[t].pc = "done" /\ th[t].res.err = "ok"
    /\ \E x \in NodeIds : \E key \in DOMAIN children[x] :
         /\ cells[children[x][key]] # Nil
         /\ \E q \in CellIds :
              /\ q < children[x][key] /\ cells[q] = Nil
              /\ \A y \in NodeIds : q \notin Range(children[y])

\* node x is out of the registry because a remove took it out
Removed(x) == dead[x] \/ \E u \in Threads : RemovedBy(u) = x

\* connect holds the node that was registered under each name when it looked
\* the name up, the child registered and not dead at its lookup; it installs
\* the cell for that child in that parent's map; and each of the two nodes is,
\* at the installation, either still registered or taken out by a remove
\* that came after the lookup
ConnectLooksUpRegisteredStep ==
  \A t \in Threads :
    /\ th[t].pc = "connect_p" /\ Moved(t) =>
         /\ th'[t].node = registry[th[t].a1]
         /\ th'[t].node # Nil => ~dead[th'[t].node]
    /\ th[t].pc = "connect_c" /\ th'[t].pc = "addChild_lock" =>
         /\ th'[t].node = th[t].node /\ th[t].node # Nil
         /\ th'[t].cnode = registry[th[t].a2] /\ th'[t].cnode # Nil
         /\ ~dead[th'[t].cnode]
    /\ th[t].pc = "addChild_store" /\ Moved(t) =>
         LET x == th[t].node
             c == th[t].cnode
         IN /\ name[x] = th[t].a1 /\ name[c] = th[t].a2
            /\ cells'[children'[x][name[c]]] = c
            /\ registry[name[x]] = x \/ Removed(x)
            /\ registry[name[c]] = c \/ Removed(c)

\* at the moment connect installs its cell, parent and child are registered
\* and not dead
InstallsRegisteredStep ==
  \A t \in Threads :
    th[t].pc = "addChild_store" /\ Moved(t) =>
      /\ registry[th[t].a1] = th[t].node /\ ~dead[th[t].node]
      /\ registry[th[t].a2] = th[t].cnode /\ ~dead[th[t].cnode]

\* C19 as stated: under any interleaving, at the moment connect(p, c)
\* installs its cell in p's map, the parent and the child it looked up are
\* still registered: neither has been removed and marked dead in the meantime.
ConnectInstallsRegistered ==
  [][ConnectLooksUpRegisteredStep /\ InstallsRegisteredStep]_vars

\* C19 as amended: each node connect(p, c) links was registered, and not
\* dead, at the moment connect looked its name up, and the cell is installed
\* for exactly these two nodes; a remove can take either node out between
\* the lookup and the installation, so the installed cell can reference, or
\* sit in the map of, a removed node.
ConnectLooksUpRegistered == [][ConnectLooksUpRegisteredStep]_vars

\* C19 witness: a connect that looked up both nodes stands before the
\* installation of its cell while the child has been removed and marked dead.
ConnectLooksUpRegisteredWitness ==
  \E t \in Threads :
    /\ th[t].pc = "addChild_store" /\ dead[th[t].cnode]
    /\ registry[th[t].a1] = th[t].node

\* the entries of node x whose cell is empty
EmptyEntries(x) == {key \in DOMAIN children[x] : cells[children[x][key]] = Nil}

\* no operation is in progress on node x
Quiescent(x) == \A t \in Threads : th[t].pc \in {"idle", "done"} \/ th[t].node # x

\* the resolvers on node x that have emptied a cell and not yet incremented
PendingAdds(x) == {t \in Threads : th[t].pc = "gard_add" /\ th[t].node = x}

\* in a quiescent state the empty entries of a node are at most its counter
QuiescentEmptyCounted ==
  \A x \in NodeIds : Quiescent(x) => Cardinality(EmptyEntries(x)) <= cleanupCounter[x]

\* the counter a compaction leaves is at least the number of empty entries
\* it leaves in the map
CleanupLeavesCountedStep ==
  \A t \in Threads :
    th[t].pc = "cleanup_loop" /\ th'[t].pc = "done" =>
      LET x == th[t].node
      IN cleanupCounter'[x] >=
           Cardinality({key \in DOMAIN children'[x] : cells'[children'[x][key]] = Nil})

\* C20 as stated: in every quiescent state the number of entries of a node's
\* map whose cell is empty is at most the node's counter, and a compaction
\* never lowers the counter below the number of empty entries it leaves
\* behind in the map.
CleanupLeavesCounted == [][QuiescentEmptyCounted' /\ CleanupLeavesCountedStep]_vars

\* C20 as amended: in every state the number of entries of a node's map
\* whose cell is empty is at most the node's counter plus the number of
\* resolvers on that node that have emptied a cell and not yet incremented;
\* so in every quiescent state it is at most the counter.  (A compaction can
\* leave the counter below the number of empty entries while such an
\* increment is pending.)
EmptyEntriesCounted ==
  /\ \A x \in NodeIds :
       Cardinality(EmptyEntries(x)) <= cleanupCounter[x] + Cardinality(PendingAdds(x))
  /\ QuiescentEmptyCounted

\* C20 witness: more than cleanupFreq cells have been emptied, a compaction
\* has lowered the counter, and the map holds more empty entries than the
\* counter says while the increment for one of them is pending.
EmptyEntriesCountedWitness ==
  \E x \in NodeIds :
    /\ Cardinality({p \in CellIds : cells[p] = Nil}) > cleanupFreq
    /\ lockW[x] = Nil /\ PendingAdds(x) # {}
    /\ cleanupCounter[x] < Cardinality(EmptyEntries(x))

====
